---- MODULE Spec2Model ----
(***************************************************************************)
(* Model of the two course notebooks day1_part1.ipynb (QSAR regression)    *)
(* and day1_part2.ipynb (MNIST classification): the seeded shuffle split,  *)
(* the feature scaler, the compile/fit/evaluate life cycle of the Keras    *)
(* models and the confusion matrix of the final evaluation.                *)
(*                                                                         *)
(* The notebooks consist of calls into random, numpy, scikit-learn and     *)
(* tensorflow.keras. Each call is modelled at its call site by what the    *)
(* library does there: random.shuffle is the Fisher-Yates loop driven by   *)
(* the seeded generator, int(n * f) is the double-precision product        *)
(* truncated, Model.fit is the epoch loop (training pass, validation pass, *)
(* History entry), Dropout zeroes and rescales in training mode only,      *)
(* to_categorical encodes with the width of the largest label it is given, *)
(* confusion_matrix counts label pairs over the labels that occur. The     *)
(* generator itself is abstracted to a small congruential one: only that   *)
(* it is a deterministic function of its state matters.                    *)
(***************************************************************************)
EXTENDS Integers, Naturals, Sequences, FiniteSets, TLC

\* ------------------------------------------------------------------------
\* Bounds of the model
\* ------------------------------------------------------------------------

\* largest row count n of the splitter runs
MaxN == 5

\* seeds 0..MaxSeed are tried besides the two seeds of the notebooks
MaxSeed == 1

\* the generator may be in any of the states 0..MaxPrior before random.seed
MaxPrior == 2

\* ------------------------------------------------------------------------
\* Program constants
\* ------------------------------------------------------------------------

\* random.seed(1234) of notebook 1, random.seed(4826) of notebook 2
Seed1 == 1234
Seed2 == 4826

Seeds == {Seed1, Seed2} \cup (0..MaxSeed)

\* The float literals 0.7 and 0.8 as IEEE-754 doubles: the 53-bit
\* significand in hexadecimal digits, most significant first; the value of
\* the literal is the significand times 2^-53.
\*   0.7 = 0x1.6666666666666p-1      0.8 = 0x1.999999999999ap-1
Lit07 == <<1, 6, 6, 6, 6, 6, 6, 6, 6, 6, 6, 6, 6, 6>>
Lit08 == <<1, 9, 9, 9, 9, 9, 9, 9, 9, 9, 9, 9, 9, 10>>

Fracs == {"0.7", "0.8"}

Significand(f) == IF f = "0.7" THEN Lit07 ELSE Lit08

\* the decimal fraction the literal denotes, as numerator over 10
Tenths(f) == IF f = "0.7" THEN 7 ELSE 8

\* ------------------------------------------------------------------------
\* int(n * f): the double-precision product, truncated toward zero
\* ------------------------------------------------------------------------

RECURSIVE Reverse(_)
Reverse(s) == IF s = <<>> THEN <<>> ELSE Reverse(Tail(s)) \o <<Head(s)>>

\* ds: hexadecimal digits, least significant first; the digits of ds*n + c
RECURSIVE MulDigits(_, _, _)
MulDigits(ds, n, c) ==
    IF ds = <<>>
    THEN IF c = 0 THEN <<>> ELSE <<c % 16>> \o MulDigits(<<>>, n, c \div 16)
    ELSE LET t == Head(ds) * n + c
         IN  <<t % 16>> \o MulDigits(Tail(ds), n, t \div 16)

\* the bits of hexadecimal digits, least significant first
RECURSIVE BitsOf(_)
BitsOf(ds) ==
    IF ds = <<>> THEN <<>>
    ELSE LET d == Head(ds)
         IN  <<d % 2, (d \div 2) % 2, (d \div 4) % 2, (d \div 8) % 2>>
             \o BitsOf(Tail(ds))

\* drop the zero bits at the most significant end
RECURSIVE Strip(_)
Strip(bs) ==
    IF bs = <<>> \/ bs[Len(bs)] = 1 THEN bs
    ELSE Strip(SubSeq(bs, 1, Len(bs) - 1))

\* the number whose bits, least significant first, are bs
RECURSIVE BitsToNat(_)
BitsToNat(bs) == IF bs = <<>> THEN 0 ELSE Head(bs) + 2 * BitsToNat(Tail(bs))

\* n * f in double precision (round to nearest, ties to even), truncated:
\* the exact product is P * 2^-53 with P = n * significand; P is rounded to
\* its 53 leading bits and the bits above the binary point are kept.
IntOfProduct(n, f) ==
    LET B    == Strip(BitsOf(MulDigits(Reverse(Significand(f)), n, 0)))
        L    == Len(B)
        s    == L - 53
        low  == SubSeq(B, 1, s)
        kept == SubSeq(B, s + 1, L)
        up   == /\ s > 0
                /\ low[s] = 1
                /\ \/ \E i \in 1..(s - 1) : low[i] = 1
                   \/ kept[1] = 1
        ip   == BitsToNat(SubSeq(kept, 54 - s, 53))
        ones == \A i \in 1..(53 - s) : kept[i] = 1
    IN  IF up /\ ones THEN ip + 1 ELSE ip

\* n_train = int(len(y) * 0.7)  /  n_train = int(n_train0 * 0.8)
\* round(n * f): the nearest integer to n*t/10, halves to the even one
RoundOfProduct(n, f) ==
    LET q == (n * Tenths(f)) \div 10
        r == (n * Tenths(f)) % 10
    IN  IF r > 5 \/ (r = 5 /\ q % 2 = 1) THEN q + 1 ELSE q

\* math.ceil(n * f) in place of int(n * f)
CeilOfProduct(n, f) ==
    IF (n * Tenths(f)) % 10 = 0 THEN IntOfProduct(n, f) ELSE IntOfProduct(n, f) + 1

NTrain(n, f) == IntOfProduct(n, f)

\* ------------------------------------------------------------------------
\* The pseudo-random generator behind random.seed and random.shuffle.
\* The generator is a deterministic function of its state; random.seed(a)
\* replaces the state by one computed from a alone.
\* ------------------------------------------------------------------------

SeedStateMixed(a, old) == (a + old) % 65537

SeedState(a, old) == a % 65537

NextRng(s) == (s * 75 + 74) % 65537

\* self._randbelow(k): advances the generator, returns a value in 0..k-1
RandBelow(k, s) == NextRng(s) % k

\* np.arange(n): the row indices 0..n-1 in order
Arange(n) == [p \in 1..n |-> p - 1]

\* x[i], x[j] = x[j], x[i]   (positions counted from 0 as in the code)
SwapLossy(x, i, j) == [x EXCEPT ![i + 1] = x[j + 1]]

Swap(x, i, j) == [x EXCEPT ![i + 1] = x[j + 1], ![j + 1] = x[i + 1]]

\* random.shuffle(x):
\*   for i in reversed(range(1, len(x))): j = randbelow(i+1); swap x[i], x[j]
\* one iteration, from loop position i with generator state s
ShuffleStep(x, i, s) == Swap(x, i, RandBelow(i + 1, s))

\* the whole loop, from position i down to 1: <<shuffled array, generator>>
RECURSIVE ShuffleFrom(_, _, _)
ShuffleFrom(x, i, s) ==
    IF i < 1 THEN <<x, s>>
    ELSE ShuffleFrom(ShuffleStep(x, i, s), i - 1, NextRng(s))

Shuffle(x, s) == ShuffleFrom(x, Len(x) - 1, s)

\* indices[:n_train] and indices[n_train:]
SliceHead(x, k) == SubSeq(x, 1, k)
SliceTail(x, k) == SubSeq(x, k + 1, Len(x))

\* len(x[:k]) and len(x[k:]) for an array x of n rows and k >= 0
SliceHeadLen(n, k) == IF k < n THEN k ELSE n
SliceTailLen(n, k) == IF k < n THEN n - k ELSE 0

Range(x) == {x[p] : p \in 1..Len(x)}

\* ------------------------------------------------------------------------
\* The feature scaler of notebook 1 (StandardScaler)
\* ------------------------------------------------------------------------

RECURSIVE SumOf(_)
SumOf(rows) == IF rows = <<>> THEN 0 ELSE Head(rows).v + SumOf(Tail(rows))

RECURSIVE SumSqOf(_)
SumSqOf(rows) ==
    IF rows = <<>> THEN 0 ELSE Head(rows).v * Head(rows).v + SumSqOf(Tail(rows))

Ids(rows) == {rows[p].id : p \in 1..Len(rows)}

\* StandardScaler().fit(rows): the per-column statistics of the rows given.
\* mean_ = sum / n_samples_seen, var_ = sumsq / n_samples_seen - mean_^2;
\* seen is the set of original row indices the statistics were computed from.
ScalerFit(rows) ==
    [n_samples_seen |-> Len(rows), sum |-> SumOf(rows), sumsq |-> SumSqOf(rows),
     seen |-> Ids(rows)]

\* scaler.transform(rows): (x - mean_) / scale_ for every row, the scaler
\* itself untouched. The standardized value is kept exact as the pair
\* num/den with x - mean_ = num / n_samples_seen and
\* scale_^2 = den / n_samples_seen^2 (a zero variance is replaced by 1).
Standardize(row, sc) ==
    [id  |-> row.id,
     num |-> row.v * sc.n_samples_seen - sc.sum,
     den |-> IF sc.n_samples_seen * sc.sumsq = sc.sum * sc.sum
             THEN sc.n_samples_seen * sc.n_samples_seen
             ELSE sc.n_samples_seen * sc.sumsq - sc.sum * sc.sum]

ScalerTransform(rows, sc) == [p \in 1..Len(rows) |-> Standardize(rows[p], sc)]

\* a transform that fits again on the rows it is given
ScalerRefit(sc, rows) == ScalerFit(rows)

\* the scaler after scaler.transform(rows)
ScalerAfterTransform(sc, rows) == sc

\* x[idx]: the rows of x at the positions idx (indices counted from 0)
Gather(x, idx) == [p \in 1..Len(idx) |-> x[idx[p] + 1]]

\* ------------------------------------------------------------------------
\* Label encoding and the confusion matrix (notebook 2)
\* ------------------------------------------------------------------------

RECURSIVE MaxOf(_)
MaxOf(S) ==
    IF S = {} THEN 0
    ELSE LET a == CHOOSE z \in S : TRUE
             b == MaxOf(S \ {a})
         IN  IF a > b THEN a ELSE b

\* the elements of a set of numbers in increasing order
RECURSIVE Sorted(_)
Sorted(S) ==
    IF S = {} THEN <<>>
    ELSE LET a == CHOOSE z \in S : \A u \in S : z <= u
         IN  <<a>> \o Sorted(S \ {a})

\* to_categorical(labels): one row per label, a vector with a single 1 at
\* the position of the class id; num_classes is not given, so the width is
\* the largest class id of the labels given, plus one
OneHotWidth(rows) == MaxOf({rows[p].v : p \in 1..Len(rows)}) + 1

\* the 1 placed one position too low
OneHotOffByOne(c, width) == [q \in 1..width |-> IF q = c THEN 1 ELSE 0]

OneHot(c, width) == [q \in 1..width |-> IF q = c + 1 THEN 1 ELSE 0]

ToCategorical(rows) ==
    [p \in 1..Len(rows) |->
        [id |-> rows[p].id, v |-> OneHot(rows[p].v, OneHotWidth(rows))]]

\* vec.argmax(): the position (from 0) of the first largest entry
ArgMax(vec) ==
    (CHOOSE q \in 1..Len(vec) :
        /\ \A u \in 1..Len(vec) : vec[u] <= vec[q]
        /\ \A u \in 1..(q - 1) : vec[u] < vec[q]) - 1

ArgMaxRows(rows) == [p \in 1..Len(rows) |-> [id |-> rows[p].id, v |-> ArgMax(rows[p].v)]]

\* confusion_matrix(t, p) with no labels argument: the labels are the
\* sorted distinct values occurring in t or p, and entry [a][b] counts the
\* rows whose true value is the a-th label and predicted value the b-th
CMLabels(t, p) == Sorted(Range(t) \cup Range(p))

ConfusionMatrix(t, p) ==
    LET labels == CMLabels(t, p)
    IN  [a \in 1..Len(labels) |->
            [b \in 1..Len(labels) |->
                Cardinality({r \in 1..Len(t) : t[r] = labels[a] /\ p[r] = labels[b]})]]

\* X.astype('float32') / 255
Normalize(rows) == [p \in 1..Len(rows) |-> [id |-> rows[p].id, v |-> rows[p].v, den |-> 255]]

Values(rows) == [p \in 1..Len(rows) |-> rows[p].v]

\* ------------------------------------------------------------------------
\* The notebooks as programs: the statements of the code cells in their
\* written order. cell numbers the code cells of the notebook from 1, line
\* is the line of the .ipynb file, uses are the names the statement reads
\* and binds the names it assigns.
\* ------------------------------------------------------------------------

Stmt(cell, line, op, m, uses, binds, arg) ==
    [cell |-> cell, line |-> line, op |-> op, m |-> m, uses |-> uses,
     binds |-> binds, arg |-> arg]

NoArg == [none |-> TRUE]

\* epochs=200 of both fits of notebook 1, n_epochs = 10 of notebook 2
Epochs1 == 200
Epochs2 == 10

Prog1 == <<
    Stmt(3, 106, "load", "", {}, {"X", "y"}, NoArg),
    Stmt(4, 126, "n_train", "", {"y"}, {"n_train"}, [f |-> "0.7", of |-> "y"]),
    Stmt(4, 128, "seed", "", {}, {}, [seed |-> Seed1]),
    Stmt(4, 129, "arange", "", {"y"}, {"indices"}, [of |-> "y"]),
    Stmt(4, 130, "shuffle", "", {"indices"}, {}, NoArg),
    Stmt(4, 133, "slice", "", {"X", "indices", "n_train"}, {"X_train0", "X_test0"},
         [src |-> "X", head |-> "X_train0", tail |-> "X_test0"]),
    Stmt(4, 134, "slice", "", {"y", "indices", "n_train"}, {"y_train", "y_test"},
         [src |-> "y", head |-> "y_train", tail |-> "y_test"]),
    Stmt(4, 137, "scaler_fit", "scaler", {"X_train0"}, {"scaler"}, [x |-> "X_train0"]),
    Stmt(4, 138, "transform", "scaler", {"scaler", "X_train0"}, {"X_train"},
         [x |-> "X_train0", to |-> "X_train"]),
    Stmt(4, 139, "transform", "scaler", {"scaler", "X_test0"}, {"X_test"},
         [x |-> "X_test0", to |-> "X_test"]),
    Stmt(5, 155, "define", "LR_model", {}, {"LR_model"}, [out |-> 1, dropout |-> FALSE]),
    Stmt(5, 156, "lr_fit", "LR_model", {"LR_model", "X_train", "y_train"}, {},
         [x |-> "X_train", y |-> "y_train"]),
    Stmt(5, 157, "predict", "LR_model", {"LR_model", "X_test"}, {"LR_pred"},
         [x |-> "X_test", to |-> "LR_pred"]),
    Stmt(5, 158, "mean_squared_error", "", {"y_test", "LR_pred"}, {"LR_mse"},
         [t |-> "y_test", p |-> "LR_pred", to |-> "LR_mse"]),
    Stmt(6, 188, "define", "ANN1", {"X_train"}, {"inps", "preds", "ANN1"},
         [out |-> 1, dropout |-> FALSE]),
    Stmt(7, 211, "compile", "ANN1", {"ANN1"}, {}, [loss |-> "mse", metrics |-> {}]),
    Stmt(7, 213, "fit", "ANN1", {"ANN1", "X_train", "y_train", "X_test", "y_test"},
         {"history"},
         [x |-> "X_train", y |-> "y_train", vx |-> "X_test", vy |-> "y_test",
          epochs |-> Epochs1]),
    Stmt(7, 214, "plot_history", "", {"history"}, {}, NoArg),
    Stmt(8, 230, "evaluate", "ANN1", {"ANN1", "X_test", "y_test"}, {"ANN1_mse"},
         [x |-> "X_test", y |-> "y_test", to |-> "ANN1_mse"]),
    Stmt(9, 260, "blank", "", {}, {}, NoArg),
    Stmt(10, 276, "blank", "", {}, {}, NoArg),
    Stmt(11, 315, "define", "ANN2", {"X_train"}, {"inps", "x", "preds", "ANN2"},
         [out |-> 1, dropout |-> TRUE]),
    Stmt(12, 333, "compile", "ANN2", {"ANN2"}, {}, [loss |-> "mse", metrics |-> {}]),
    Stmt(12, 335, "fit", "ANN2", {"ANN2", "X_train", "y_train", "X_test", "y_test"},
         {"history"},
         [x |-> "X_train", y |-> "y_train", vx |-> "X_test", vy |-> "y_test",
          epochs |-> Epochs1]),
    Stmt(12, 336, "plot_history", "", {"history"}, {}, NoArg),
    Stmt(13, 345, "evaluate", "ANN2", {"ANN2", "X_test", "y_test"}, {"ANN2_mse"},
         [x |-> "X_test", y |-> "y_test", to |-> "ANN2_mse"]) >>

\* n_train0 = 60000 is the number of rows of train_images (the reshape to
\* (n_train0, 28 * 28) needs it to be), so the row count is read off the
\* array; l_train and l_valid name the sliced labels that lines 138 and 139
\* pass to to_categorical.
Prog2 == <<
    Stmt(3, 121, "load", "", {},
         {"train_images", "train_labels", "test_images", "test_labels"}, NoArg),
    Stmt(3, 125, "normalize", "", {"train_images"}, {"X"},
         [x |-> "train_images", to |-> "X"]),
    Stmt(3, 128, "seed", "", {}, {}, [seed |-> Seed2]),
    Stmt(3, 129, "arange", "", {"train_images"}, {"indices"}, [of |-> "train_images"]),
    Stmt(3, 130, "shuffle", "", {"indices"}, {}, NoArg),
    Stmt(3, 132, "n_train", "", {"train_images"}, {"n_train"},
         [f |-> "0.8", of |-> "train_images"]),
    Stmt(3, 133, "slice", "", {"X", "indices", "n_train"}, {"X_train", "X_valid"},
         [src |-> "X", head |-> "X_train", tail |-> "X_valid"]),
    Stmt(3, 135, "normalize", "", {"test_images"}, {"X_test"},
         [x |-> "test_images", to |-> "X_test"]),
    Stmt(3, 138, "slice", "", {"train_labels", "indices", "n_train"},
         {"l_train", "l_valid"},
         [src |-> "train_labels", head |-> "l_train", tail |-> "l_valid"]),
    Stmt(3, 138, "to_categorical", "", {"l_train"}, {"y_train"},
         [x |-> "l_train", to |-> "y_train"]),
    Stmt(3, 139, "to_categorical", "", {"l_valid"}, {"y_valid"},
         [x |-> "l_valid", to |-> "y_valid"]),
    Stmt(3, 140, "to_categorical", "", {"test_labels"}, {"y_test"},
         [x |-> "test_labels", to |-> "y_test"]),
    Stmt(4, 168, "define", "ANN1", {"X_train"}, {"inps", "x", "preds", "ANN1"},
         [out |-> 10, dropout |-> FALSE]),
    Stmt(5, 199, "compile", "ANN1", {"ANN1"}, {},
         [loss |-> "categorical_crossentropy", metrics |-> {"accuracy"}]),
    Stmt(5, 203, "fit", "ANN1", {"ANN1", "X_train", "y_train", "X_valid", "y_valid"},
         {"history"},
         [x |-> "X_train", y |-> "y_train", vx |-> "X_valid", vy |-> "y_valid",
          epochs |-> Epochs2]),
    Stmt(5, 204, "plot_history", "", {"history"}, {}, NoArg),
    Stmt(5, 206, "evaluate", "ANN1", {"ANN1", "X_valid", "y_valid"}, {"val_loss"},
         [x |-> "X_valid", y |-> "y_valid", to |-> "val_loss"]),
    Stmt(6, 225, "blank", "", {}, {}, NoArg),
    Stmt(7, 234, "blank", "", {}, {}, NoArg),
    Stmt(8, 243, "blank", "", {}, {}, NoArg),
    Stmt(9, 252, "blank", "", {}, {}, NoArg),
    Stmt(10, 269, "evaluate", "ANN3", {"ANN3", "X_test", "y_test"}, {"test_loss"},
         [x |-> "X_test", y |-> "y_test", to |-> "test_loss"]),
    Stmt(10, 273, "predict", "ANN3", {"ANN3", "X_test"}, {"y_pred"},
         [x |-> "X_test", to |-> "y_pred"]),
    Stmt(10, 274, "argmax", "", {"y_pred"}, {"y_pred"}, [x |-> "y_pred", to |-> "y_pred"]),
    Stmt(10, 276, "confusion_matrix", "", {"y_test", "y_pred"}, {"cnf_matrix"},
         [t |-> "y_test", p |-> "y_pred", to |-> "cnf_matrix"]),
    Stmt(11, 302, "argmax", "", {"y_test"}, {"y_test_vec"},
         [x |-> "y_test", to |-> "y_test_vec"]),
    Stmt(11, 303, "mis_indices", "", {"y_test_vec", "y_pred"}, {"mis_indices"},
         [t |-> "y_test_vec", p |-> "y_pred", to |-> "mis_indices"]) >>

\* notebook 1 with the compile and the fit of ANN1 in the other order
ProgFitBeforeCompile(k) ==
    IF k = 1 THEN [Prog1 EXCEPT ![16] = Prog1[17], ![17] = Prog1[16]] ELSE Prog2

\* the indices shuffled once more between the slicing of the features and
\* the slicing of the labels
ProgShuffleBetween(k) ==
    IF k = 1
    THEN SubSeq(Prog1, 1, 6) \o <<Prog1[5]>> \o SubSeq(Prog1, 7, Len(Prog1))
    ELSE SubSeq(Prog2, 1, 8) \o <<Prog2[5]>> \o SubSeq(Prog2, 9, Len(Prog2))

\* notebook 2 with the test partition given to fit as validation_data
ProgValidateOnTest(k) ==
    IF k = 1 THEN Prog1
    ELSE [Prog2 EXCEPT ![15].arg.vx = "X_test", ![15].arg.vy = "y_test",
                       ![15].uses = {"ANN1", "X_train", "y_train", "X_test", "y_test"}]

Prog(k) == IF k = 1 THEN Prog1 ELSE Prog2

\* ------------------------------------------------------------------------
\* State
\* ------------------------------------------------------------------------

VARIABLES
    sN,     \* splitter runs: the row count n
    sFrac,  \* splitter runs: the training fraction literal
    sSeed,  \* splitter runs: the seed given to random.seed
    run,    \* splitter runs: the two runs, each a record of its position,
            \* generator state, index array, loop counter and partitions
    size    \* partition sizes: the row count, the fraction, n_train and the
            \* lengths of the two slices of the index array

splitVars == <<sN, sFrac, sSeed, run, size>>

VARIABLES
    nb,       \* which notebook runs: 1 (day1_part1) or 2 (day1_part2)
    files,    \* the data the notebook loads
    pc,       \* the statement of Prog(nb) to execute next
    env,      \* the kernel's namespace: the names bound so far and their values
    rng,      \* the state of the random module's generator
    scaler,   \* the StandardScaler object
    model,    \* the estimator objects, by the name they are bound to
    fit,      \* the fit call in progress: its model, epoch, phase and history
    lastPass, \* the last pass over data a model made: its kind, rows and loss
    log,      \* the library calls made so far, in order
    errors    \* the exceptions raised so far

nbVars == <<nb, files, pc, env, rng, scaler, model, fit, lastPass, log, errors>>

VARIABLES
    tLabels,  \* final evaluation: the class ids of the test labels
    scores,   \* final evaluation: the class scores predicted for each test row
    cm        \* final evaluation: position and the values computed so far

cmVars == <<tLabels, scores, cm>>

vars == <<sN, sFrac, sSeed, run, size, nb, files, pc, env, rng, scaler, model, fit,
          lastPass, log, errors, tLabels, scores, cm>>

\* ------------------------------------------------------------------------
\* The splitter, run twice on the same n, fraction and seed from different
\* generator states (the split cells of both notebooks)
\* ------------------------------------------------------------------------

Runs == {1, 2}

ModelNames == {"LR_model", "ANN1", "ANN2", "ANN3"}

NoModel == [state |-> "Undefined", out |-> 0, dropout |-> FALSE, loss |-> "none",
            metrics |-> {}, w |-> 0, fits |-> 0]

NoFit == [m |-> "", epoch |-> 0, epochs |-> 0, phase |-> "idle", w0 |-> 0,
          history |-> <<>>]

NoPass == [kind |-> "none", m |-> "", training |-> FALSE, rows |-> {}, loss |-> "none",
           drop |-> <<>>]

NoScaler == [n_samples_seen |-> 0, sum |-> 0, sumsq |-> 0, seen |-> {}]

NoCM == [pc |-> 0, y_test |-> <<>>, acc |-> <<0, 0>>, y_pred |-> <<>>,
         cnf_matrix |-> <<>>]

CMIdle ==
    /\ tLabels = <<>>
    /\ scores = <<>>
    /\ cm = NoCM

\* the notebook part of the state while only the splitter runs
NotebookIdle ==
    /\ nb = 0
    /\ files = <<>>
    /\ pc = 0
    /\ env = <<>>
    /\ rng = 0
    /\ scaler = NoScaler
    /\ model = [m \in ModelNames |-> NoModel]
    /\ fit = NoFit
    /\ lastPass = NoPass
    /\ log = <<>>
    /\ errors = <<>>

\* the statements of the split cell in their written order
SplitProg(f) ==
    IF f = "0.7"
    THEN <<"n_train", "seed", "arange", "shuffle", "slice">>
    ELSE <<"seed", "arange", "shuffle", "n_train", "slice">>

\* prior and swaps are history: the generator state the run started from and
\* the number of swaps the shuffle has made
NoSize == [pc |-> 0, n |-> 0, f |-> "0.7", n_train |-> 0, train |-> 0, test |-> 0]

NoSplit == [pc |-> 1, rng |-> 0, prior |-> 0, indices |-> <<>>, i |-> 0,
            n_train |-> 0, train |-> <<>>, test |-> <<>>, swaps |-> 0]

SplitDone(r) == run[r].pc > Len(SplitProg(sFrac))

SplitAt(r, op) == ~SplitDone(r) /\ SplitProg(sFrac)[run[r].pc] = op

InitSplit ==
    /\ sN \in 1..MaxN
    /\ sFrac \in Fracs
    /\ sSeed \in Seeds
    /\ run \in [Runs -> {[NoSplit EXCEPT !.rng = g, !.prior = g] : g \in 0..MaxPrior}]
    /\ size = NoSize
    /\ NotebookIdle
    /\ CMIdle

SplitNTrain(r) ==
    /\ SplitAt(r, "n_train")
    /\ run' = [run EXCEPT ![r].n_train = NTrain(sN, sFrac), ![r].pc = @ + 1]
    /\ UNCHANGED <<sN, sFrac, sSeed, size>>
    /\ UNCHANGED nbVars
    /\ UNCHANGED cmVars

SplitSeed(r) ==
    /\ SplitAt(r, "seed")
    /\ run' = [run EXCEPT ![r].rng = SeedState(sSeed, @), ![r].pc = @ + 1]
    /\ UNCHANGED <<sN, sFrac, sSeed, size>>
    /\ UNCHANGED nbVars
    /\ UNCHANGED cmVars

SplitArange(r) ==
    /\ SplitAt(r, "arange")
    /\ run' = [run EXCEPT ![r].indices = Arange(sN), ![r].i = sN - 1,
                          ![r].pc = @ + 1]
    /\ UNCHANGED <<sN, sFrac, sSeed, size>>
    /\ UNCHANGED nbVars
    /\ UNCHANGED cmVars

SplitShuffleSwap(r) ==
    /\ SplitAt(r, "shuffle")
    /\ run[r].i >= 1
    /\ run' = [run EXCEPT ![r].indices = ShuffleStep(@, run[r].i, run[r].rng),
                          ![r].rng = NextRng(@),
                          ![r].i = @ - 1,
                          ![r].swaps = @ + 1]
    /\ UNCHANGED <<sN, sFrac, sSeed, size>>
    /\ UNCHANGED nbVars
    /\ UNCHANGED cmVars

SplitShuffleEnd(r) ==
    /\ SplitAt(r, "shuffle")
    /\ run[r].i < 1
    /\ run' = [run EXCEPT ![r].pc = @ + 1]
    /\ UNCHANGED <<sN, sFrac, sSeed, size>>
    /\ UNCHANGED nbVars
    /\ UNCHANGED cmVars

SplitSlice(r) ==
    /\ SplitAt(r, "slice")
    /\ run' = [run EXCEPT ![r].train = SliceHead(run[r].indices, run[r].n_train),
                          ![r].test = SliceTail(run[r].indices, run[r].n_train),
                          ![r].pc = @ + 1]
    /\ UNCHANGED <<sN, sFrac, sSeed, size>>
    /\ UNCHANGED nbVars
    /\ UNCHANGED cmVars

NextSplit ==
    \E r \in Runs :
        \/ SplitNTrain(r)
        \/ SplitSeed(r)
        \/ SplitArange(r)
        \/ SplitShuffleSwap(r)
        \/ SplitShuffleEnd(r)
        \/ SplitSlice(r)

SpecSplit == InitSplit /\ [][NextSplit]_vars

\* ------------------------------------------------------------------------
\* The sizes of the partitions the split cells produce, on small row counts
\* and on the row counts of the two datasets
\* ------------------------------------------------------------------------

\* row counts 1..MaxCount are tried besides those of the two datasets
MaxCount == 40

\* the 1142 compounds of the QSAR arrays; n_train0 = 60000 MNIST images
QsarRows == 1142
MnistRows == 60000

RowCounts == (1..MaxCount) \cup {QsarRows, MnistRows}

InitSize ==
    /\ size \in {[NoSize EXCEPT !.pc = 1, !.n = n, !.f = f] :
                    n \in RowCounts, f \in Fracs}
    /\ sN = 0
    /\ sFrac = "0.7"
    /\ sSeed = 0
    /\ run = [r \in Runs |-> NoSplit]
    /\ NotebookIdle
    /\ CMIdle

\* n_train = int(len(y) * 0.7) / n_train = int(n_train0 * 0.8)
SizeNTrain ==
    /\ size.pc = 1
    /\ size' = [size EXCEPT !.n_train = NTrain(size.n, size.f), !.pc = 2]
    /\ UNCHANGED <<sN, sFrac, sSeed, run>>
    /\ UNCHANGED nbVars
    /\ UNCHANGED cmVars

\* X[indices[:n_train]]: indices has one entry per row
SizeTrain ==
    /\ size.pc = 2
    /\ size' = [size EXCEPT !.train = SliceHeadLen(size.n, size.n_train), !.pc = 3]
    /\ UNCHANGED <<sN, sFrac, sSeed, run>>
    /\ UNCHANGED nbVars
    /\ UNCHANGED cmVars

\* X[indices[n_train:]]
SizeTest ==
    /\ size.pc = 3
    /\ size' = [size EXCEPT !.test = SliceTailLen(size.n, size.n_train), !.pc = 4]
    /\ UNCHANGED <<sN, sFrac, sSeed, run>>
    /\ UNCHANGED nbVars
    /\ UNCHANGED cmVars

NextSize ==
    \/ SizeNTrain
    \/ SizeTrain
    \/ SizeTest

SpecSize == InitSize /\ [][NextSize]_vars

\* ------------------------------------------------------------------------
\* A run of a notebook: its code cells executed in their written order
\* ------------------------------------------------------------------------

\* values a feature takes, class ids of a label, rows of the MNIST test pool
MaxRows == 3
MaxVal == 1
MaxClass == 1
MaxTest == 2

Losses == {"finite", "nan"}

\* rows carry the index they have in the array they were loaded from (id);
\* the rows of the separate test pool of notebook 2 are numbered -1, -2, ...
Rows(vals) == [p \in 1..Len(vals) |-> [id |-> p - 1, v |-> vals[p]]]

TestRows(vals) == [p \in 1..Len(vals) |-> [id |-> 0 - p, v |-> vals[p]]]

Files(k) ==
    IF k = 1
    THEN UNION {{[X |-> Rows(vx), y |-> Rows([p \in 1..n |-> p])] :
                    vx \in [1..n -> 0..MaxVal]} : n \in 2..MaxRows}
    ELSE UNION {{[train_images |-> Rows([p \in 1..n |-> p]),
                  train_labels |-> Rows(l),
                  test_images |-> TestRows([p \in 1..MaxTest |-> p]),
                  test_labels |-> TestRows(tl)] :
                    l \in [1..n -> 0..MaxClass], tl \in [1..MaxTest -> 0..MaxClass]} :
                 n \in 2..MaxRows}

SplitterIdle ==
    /\ sN = 0
    /\ sFrac = "0.7"
    /\ sSeed = 0
    /\ run = [r \in Runs |-> NoSplit]
    /\ size = NoSize

Init ==
    /\ nb \in {1, 2}
    /\ files \in Files(nb)
    /\ pc = 1
    /\ env = <<>>
    /\ rng \in 0..MaxPrior
    /\ scaler = NoScaler
    /\ model = [m \in ModelNames |-> NoModel]
    /\ fit = NoFit
    /\ lastPass = NoPass
    /\ log = <<>>
    /\ errors = <<>>
    /\ SplitterIdle
    /\ CMIdle

Finished == pc > Len(Prog(nb))

Cur == Prog(nb)[pc]

Bound(names) == names \subseteq DOMAIN env

\* a statement raises when it reads a name that is not bound (NameError), or
\* calls fit or evaluate on a model that was not compiled (RuntimeError)
Fails(st) ==
    \/ ~Bound(st.uses)
    \/ st.op \in {"fit", "evaluate"} /\ model[st.m].state # "Compiled"

ErrorKind(st) == IF ~Bound(st.uses) THEN "NameError" ELSE "RuntimeError"

Ready(op) == ~Finished /\ fit.phase = "idle" /\ Cur.op = op /\ ~Fails(Cur)

\* an exception ends the cell: the run goes on with the next cell, if any
NextCell ==
    LET later == {q \in (pc + 1)..Len(Prog(nb)) : Prog(nb)[q].cell > Cur.cell}
    IN  IF later = {} THEN Len(Prog(nb)) + 1
        ELSE CHOOSE q \in later : \A u \in later : q <= u

Event(st) ==
    [op |-> st.op, m |-> st.m, line |-> st.line, ok |-> TRUE,
     reads |-> st.uses \ ModelNames,
     w |-> IF st.m \in ModelNames THEN model[st.m].w ELSE 0]

PureOps == {"n_train", "arange", "slice", "normalize", "to_categorical", "argmax",
            "confusion_matrix", "mis_indices", "mean_squared_error", "plot_history",
            "blank"}

\* the names a statement without side effects binds, with their values
Eval(st) ==
    LET a == st.arg IN
    CASE st.op = "n_train" -> "n_train" :> NTrain(Len(env[a.of]), a.f)
      [] st.op = "arange" -> "indices" :> Arange(Len(env[a.of]))
      [] st.op = "slice" ->
            (a.head :> Gather(env[a.src], SliceHead(env["indices"], env["n_train"])))
            @@ (a.tail :> Gather(env[a.src], SliceTail(env["indices"], env["n_train"])))
      [] st.op = "normalize" -> a.to :> Normalize(env[a.x])
      [] st.op = "to_categorical" -> a.to :> ToCategorical(env[a.x])
      [] st.op = "argmax" -> a.to :> ArgMaxRows(env[a.x])
      [] st.op = "confusion_matrix" ->
            a.to :> ConfusionMatrix(Values(ArgMaxRows(env[a.t])), Values(env[a.p]))
      [] st.op = "mean_squared_error" ->
            a.to :> [rows |-> Ids(env[a.t]), pred |-> Values(env[a.p])]
      [] st.op = "mis_indices" ->
            a.to :> {r \in 1..Len(env[a.t]) : env[a.t][r].v # env[a.p][r].v}
      [] OTHER -> <<>>

\* np.load / datasets.mnist.load_data
Load ==
    /\ Ready("load")
    /\ env' = files @@ env
    /\ pc' = pc + 1
    /\ UNCHANGED <<nb, files, rng, scaler, model, fit, lastPass, log, errors>>
    /\ UNCHANGED splitVars
    /\ UNCHANGED cmVars

Assign ==
    /\ ~Finished /\ fit.phase = "idle" /\ Cur.op \in PureOps /\ ~Fails(Cur)
    /\ env' = Eval(Cur) @@ env
    /\ pc' = pc + 1
    /\ UNCHANGED <<nb, files, rng, scaler, model, fit, lastPass, log, errors>>
    /\ UNCHANGED splitVars
    /\ UNCHANGED cmVars

\* random.seed(1234) / random.seed(4826)
Seed ==
    /\ Ready("seed")
    /\ rng' = SeedState(Cur.arg.seed, rng)
    /\ pc' = pc + 1
    /\ UNCHANGED <<nb, files, env, scaler, model, fit, lastPass, log, errors>>
    /\ UNCHANGED splitVars
    /\ UNCHANGED cmVars

\* random.shuffle(indices): shuffles the array in place
ShuffleIndices ==
    /\ Ready("shuffle")
    /\ LET r == Shuffle(env["indices"], rng)
       IN  /\ env' = ("indices" :> r[1]) @@ env
           /\ rng' = r[2]
    /\ pc' = pc + 1
    /\ UNCHANGED <<nb, files, scaler, model, fit, lastPass, log, errors>>
    /\ UNCHANGED splitVars
    /\ UNCHANGED cmVars

\* scaler = StandardScaler().fit(X_train0)
ScalerFitStmt ==
    /\ Ready("scaler_fit")
    /\ scaler' = ScalerFit(env[Cur.arg.x])
    /\ env' = ("scaler" :> "StandardScaler") @@ env
    /\ log' = Append(log, Event(Cur))
    /\ pc' = pc + 1
    /\ UNCHANGED <<nb, files, rng, model, fit, lastPass, errors>>
    /\ UNCHANGED splitVars
    /\ UNCHANGED cmVars

\* X_train = scaler.transform(X_train0) / X_test = scaler.transform(X_test0)
TransformStmt ==
    /\ Ready("transform")
    /\ env' = (Cur.arg.to :> ScalerTransform(env[Cur.arg.x], scaler)) @@ env
    /\ scaler' = ScalerAfterTransform(scaler, env[Cur.arg.x])
    /\ log' = Append(log, Event(Cur))
    /\ pc' = pc + 1
    /\ UNCHANGED <<nb, files, rng, model, fit, lastPass, errors>>
    /\ UNCHANGED splitVars
    /\ UNCHANGED cmVars

\* ------------------------------------------------------------------------
\* The estimators: models.Model / LinearRegression objects
\* ------------------------------------------------------------------------

\* units of the layer feeding the dropout layer (32 in the notebook)
MaxUnits == 1

\* layers.Dropout(0.2): the rate, in tenths
DropTenths == 2

\* the activations entering the dropout layer in a pass: relu outputs, taken
\* positive so that zeroing and scaling show in the output
Activations == [u \in 1..MaxUnits |-> u]

\* a dropout layer that drops and rescales whatever the mode of the call
DropoutAlways(x, training, zeroed) ==
    [u \in DOMAIN x |->
        IF u \in zeroed THEN [num |-> 0, den |-> 1]
        ELSE [num |-> x[u] * 10, den |-> 10 - DropTenths]]

\* Dropout(0.2)(x) called with the given training flag; zeroed are the units
\* the random mask drops. In training mode the dropped units become 0 and the
\* others are scaled by 1 / (1 - rate); otherwise x is returned. Values are
\* kept exact as num/den.
DropoutCall(x, training, zeroed) ==
    IF training
    THEN [u \in DOMAIN x |->
            IF u \in zeroed THEN [num |-> 0, den |-> 1]
            ELSE [num |-> x[u] * 10, den |-> 10 - DropTenths]]
    ELSE [u \in DOMAIN x |-> [num |-> x[u], den |-> 1]]

\* the output of the model's dropout layer in a forward pass (<<>> when the
\* model has no dropout layer)
DropoutOutput(mo, training, zeroed) ==
    IF mo.dropout THEN DropoutCall(Activations, training, zeroed) ELSE <<>>

\* the masks the layer can draw in a training pass
Masks(mo) == IF mo.dropout THEN SUBSET (1..MaxUnits) ELSE {{}}

\* models.Model(inputs=inps, outputs=preds) / LinearRegression()
NewModel(out, dropout) ==
    [NoModel EXCEPT !.state = "Uninitialized", !.out = out, !.dropout = dropout]

\* compile stores the loss and the metrics; it does not look at the outputs
Compiled(mo, loss, metrics) ==
    [mo EXCEPT !.state = "Compiled", !.loss = loss, !.metrics = metrics]

\* one pass of parameter updates over the training data: w counts them
ModelAfterTrainPass(mo) == [mo EXCEPT !.w = @ + 1]

\* a validation or evaluation pass that updated the parameters
ModelUpdated(mo) == [mo EXCEPT !.w = @ + 1]

\* the forward-only passes leave the model as it is
ModelAfterValPass(mo) == mo

ModelUpdatedByEvaluate(mo) == [mo EXCEPT !.w = @ + 1]

ModelAfterEvaluate(mo) == mo

ModelAfterPredict(mo) == mo

\* the epoch loop of fit ends when `done` of the `epochs` epochs are done; no
\* callback is passed, so the losses of the epoch play no part
EpochsDoneOrNaN(done, epochs, loss, val_loss) ==
    done >= epochs \/ (done > 0 /\ val_loss = "nan")

EpochsDone(done, epochs, loss, val_loss) == done >= epochs

\* the phase fit enters after FitStart and after each validation pass
PhaseAfter(done, epochs, loss, val_loss) ==
    IF EpochsDone(done, epochs, loss, val_loss) THEN "end" ELSE "train"

\* what one epoch appends to the history: the epoch, and the parameter
\* versions its training loss and its validation loss were computed at
HistoryEntry(epoch, mo) == [epoch |-> epoch, w |-> mo.w]

PredictRows(m, rows) ==
    [p \in 1..Len(rows) |-> [id |-> rows[p].id, v |-> [m |-> m, w |-> model[m].w]]]

Define ==
    /\ Ready("define")
    /\ model' = [model EXCEPT ![Cur.m] = NewModel(Cur.arg.out, Cur.arg.dropout)]
    /\ env' = [k \in Cur.binds |-> "object"] @@ env
    /\ log' = Append(log, Event(Cur))
    /\ pc' = pc + 1
    /\ UNCHANGED <<nb, files, rng, scaler, fit, lastPass, errors>>
    /\ UNCHANGED splitVars
    /\ UNCHANGED cmVars

\* LR_model.fit(X_train, y_train)
LRFit ==
    /\ Ready("lr_fit")
    /\ model' = [model EXCEPT ![Cur.m] =
                    [ModelAfterTrainPass(@) EXCEPT !.fits = @ + 1]]
    /\ lastPass' = [kind |-> "train", m |-> Cur.m, training |-> TRUE,
                    rows |-> Ids(env[Cur.arg.x]), loss |-> "finite",
                    drop |-> DropoutOutput(model[Cur.m], TRUE, {})]
    /\ log' = Append(log, Event(Cur))
    /\ pc' = pc + 1
    /\ UNCHANGED <<nb, files, env, rng, scaler, fit, errors>>
    /\ UNCHANGED splitVars
    /\ UNCHANGED cmVars

\* ANN.compile(optimizer=optimizers.RMSprop(lr=lr), loss=..., metrics=...)
Compile ==
    /\ Ready("compile")
    /\ model' = [model EXCEPT ![Cur.m] = Compiled(@, Cur.arg.loss, Cur.arg.metrics)]
    /\ log' = Append(log, Event(Cur))
    /\ pc' = pc + 1
    /\ UNCHANGED <<nb, files, env, rng, scaler, fit, lastPass, errors>>
    /\ UNCHANGED splitVars
    /\ UNCHANGED cmVars

\* history = ANN.fit(x, y, validation_data=(vx, vy), epochs=E): entering fit
FitStart ==
    /\ Ready("fit")
    /\ model' = [model EXCEPT ![Cur.m].state = "Training"]
    /\ fit' = [m |-> Cur.m, epoch |-> 0, epochs |-> Cur.arg.epochs,
               phase |-> PhaseAfter(0, Cur.arg.epochs, "none", "none"),
               w0 |-> model[Cur.m].w, history |-> <<>>]
    /\ log' = Append(log, Event(Cur))
    /\ UNCHANGED <<nb, files, pc, env, rng, scaler, lastPass, errors>>
    /\ UNCHANGED splitVars
    /\ UNCHANGED cmVars

\* fit, one epoch: the pass of gradient updates over (x, y)
TrainPass ==
    /\ fit.phase = "train"
    /\ \E l \in Losses, z \in Masks(model[fit.m]) :
          lastPass' = [kind |-> "train", m |-> fit.m, training |-> TRUE,
                       rows |-> Ids(env[Cur.arg.x]), loss |-> l,
                       drop |-> DropoutOutput(model[fit.m], TRUE, z)]
    /\ model' = [model EXCEPT ![fit.m] = ModelAfterTrainPass(@)]
    /\ fit' = [fit EXCEPT !.phase = "val"]
    /\ UNCHANGED <<nb, files, pc, env, rng, scaler, log, errors>>
    /\ UNCHANGED splitVars
    /\ UNCHANGED cmVars

\* fit, one epoch: the pass over validation_data, then the History callback
ValPass ==
    /\ fit.phase = "val"
    /\ \E l \in Losses :
          /\ lastPass' = [kind |-> "val", m |-> fit.m, training |-> FALSE,
                          rows |-> Ids(env[Cur.arg.vx]), loss |-> l,
                          drop |-> DropoutOutput(model[fit.m], FALSE, {})]
          /\ fit' = [fit EXCEPT
                        !.history = Append(@, HistoryEntry(fit.epoch, model[fit.m])),
                        !.epoch = @ + 1,
                        !.phase = PhaseAfter(fit.epoch + 1, fit.epochs,
                                             lastPass.loss, l)]
    /\ model' = [model EXCEPT ![fit.m] = ModelAfterValPass(@)]
    /\ UNCHANGED <<nb, files, pc, env, rng, scaler, log, errors>>
    /\ UNCHANGED splitVars
    /\ UNCHANGED cmVars

\* fit returns the History object
FitEnd ==
    /\ fit.phase = "end"
    /\ model' = [model EXCEPT ![fit.m].state = "Compiled", ![fit.m].fits = @ + 1]
    /\ env' = ("history" :> fit.history) @@ env
    /\ fit' = NoFit
    /\ pc' = pc + 1
    /\ UNCHANGED <<nb, files, rng, scaler, lastPass, log, errors>>
    /\ UNCHANGED splitVars
    /\ UNCHANGED cmVars

\* ANN.evaluate(x, y, verbose=0)
Evaluate ==
    /\ Ready("evaluate")
    /\ model' = [model EXCEPT ![Cur.m] = ModelAfterEvaluate(@)]
    /\ env' = (Cur.arg.to :> [m |-> Cur.m, w |-> model[Cur.m].w,
                              rows |-> Ids(env[Cur.arg.x])]) @@ env
    /\ lastPass' = [kind |-> "evaluate", m |-> Cur.m, training |-> FALSE,
                    rows |-> Ids(env[Cur.arg.x]), loss |-> "finite",
                    drop |-> DropoutOutput(model[Cur.m], FALSE, {})]
    /\ log' = Append(log, Event(Cur))
    /\ pc' = pc + 1
    /\ UNCHANGED <<nb, files, rng, scaler, fit, errors>>
    /\ UNCHANGED splitVars
    /\ UNCHANGED cmVars

\* LR_model.predict(X_test) / ANN.predict(X_test)
Predict ==
    /\ Ready("predict")
    /\ model' = [model EXCEPT ![Cur.m] = ModelAfterPredict(@)]
    /\ env' = (Cur.arg.to :> PredictRows(Cur.m, env[Cur.arg.x])) @@ env
    /\ lastPass' = [kind |-> "predict", m |-> Cur.m, training |-> FALSE,
                    rows |-> Ids(env[Cur.arg.x]), loss |-> "none",
                    drop |-> DropoutOutput(model[Cur.m], FALSE, {})]
    /\ log' = Append(log, Event(Cur))
    /\ pc' = pc + 1
    /\ UNCHANGED <<nb, files, rng, scaler, fit, errors>>
    /\ UNCHANGED splitVars
    /\ UNCHANGED cmVars

\* the statement raises: the rest of its cell is skipped
Raise ==
    /\ ~Finished /\ fit.phase = "idle" /\ Fails(Cur)
    /\ errors' = Append(errors, [line |-> Cur.line, kind |-> ErrorKind(Cur),
                                 op |-> Cur.op, m |-> Cur.m])
    /\ log' = Append(log, [Event(Cur) EXCEPT !.ok = FALSE])
    /\ pc' = NextCell
    /\ UNCHANGED <<nb, files, env, rng, scaler, model, fit, lastPass>>
    /\ UNCHANGED splitVars
    /\ UNCHANGED cmVars

Next ==
    \/ Load
    \/ Assign
    \/ Seed
    \/ ShuffleIndices
    \/ ScalerFitStmt
    \/ TransformStmt
    \/ Define
    \/ LRFit
    \/ Compile
    \/ FitStart
    \/ TrainPass
    \/ ValPass
    \/ FitEnd
    \/ Evaluate
    \/ Predict
    \/ Raise

Spec == Init /\ [][Next]_vars

\* ------------------------------------------------------------------------
\* The label computations of the final evaluation cell of notebook 2, on
\* arbitrary test labels and predicted class scores
\* ------------------------------------------------------------------------

\* largest number of test rows of the final evaluation
MaxCMRows == 3

NumClasses == MaxClass + 1

\* the accuracy metric: <<rows whose argmax prediction is the argmax of the
\* one-hot label, rows>>
Accuracy(y, s) ==
    <<Cardinality({r \in 1..Len(y) : ArgMax(y[r].v) = ArgMax(s[r])}), Len(y)>>

\* the confusion matrix with its two arguments exchanged
ConfusionMatrixSwapped(t, p) == ConfusionMatrix(p, t)

\* cnf_matrix = confusion_matrix(y_test.argmax(axis=-1), y_pred)
CnfMatrix(t, p) == ConfusionMatrix(t, p)

InitCM ==
    /\ \E n \in 1..MaxCMRows :
          /\ tLabels \in [1..n -> 0..MaxClass]
          /\ scores \in [1..n -> [1..NumClasses -> {0, 1}]]
    /\ cm = [NoCM EXCEPT !.pc = 1]
    /\ SplitterIdle
    /\ NotebookIdle

\* y_test = to_categorical(test_labels)
CMEncode ==
    /\ cm.pc = 1
    /\ cm' = [cm EXCEPT !.y_test = ToCategorical(TestRows(tLabels)), !.pc = 2]
    /\ UNCHANGED <<tLabels, scores>>
    /\ UNCHANGED splitVars
    /\ UNCHANGED nbVars

\* test_loss, test_acc = ANN.evaluate(X_test, y_test): the accuracy metric
CMAccuracy ==
    /\ cm.pc = 2
    /\ cm' = [cm EXCEPT !.acc = Accuracy(cm.y_test, scores), !.pc = 3]
    /\ UNCHANGED <<tLabels, scores>>
    /\ UNCHANGED splitVars
    /\ UNCHANGED nbVars

\* y_pred = ANN.predict(X_test); y_pred = y_pred.argmax(axis=-1)
CMArgmax ==
    /\ cm.pc = 3
    /\ cm' = [cm EXCEPT !.y_pred = [r \in 1..Len(scores) |-> ArgMax(scores[r])],
                        !.pc = 4]
    /\ UNCHANGED <<tLabels, scores>>
    /\ UNCHANGED splitVars
    /\ UNCHANGED nbVars

CMConfusion ==
    /\ cm.pc = 4
    /\ cm' = [cm EXCEPT
                 !.cnf_matrix = CnfMatrix(Values(ArgMaxRows(cm.y_test)), cm.y_pred),
                 !.pc = 5]
    /\ UNCHANGED <<tLabels, scores>>
    /\ UNCHANGED splitVars
    /\ UNCHANGED nbVars

NextCM ==
    \/ CMEncode
    \/ CMAccuracy
    \/ CMArgmax
    \/ CMConfusion

SpecCM == InitCM /\ [][NextCM]_vars

\* ------------------------------------------------------------------------
\* Properties of the splitter
\* ------------------------------------------------------------------------

IsPermutation(x, n) == Len(x) = n /\ Range(x) = 0..(n - 1)

Arranged(r) == run[r].indices # <<>>

\* C1: after any number of shuffle swaps the index array is a permutation of
\* 0..n-1, and the sliced train and test/validation index sets are disjoint
\* with union {0,...,n-1}.
C1_PartitionDisjointExhaustive ==
    \A r \in Runs :
        /\ (run[r].indices # <<>>) => IsPermutation(run[r].indices, sN)
        /\ SplitDone(r) =>
              /\ Range(run[r].train) \cap Range(run[r].test) = {}
              /\ Range(run[r].train) \cup Range(run[r].test) = 0..(sN - 1)
              /\ Len(run[r].train) + Len(run[r].test) = sN

C1_Witness ==
    \E r \in Runs :
        /\ SplitDone(r)
        /\ run[r].swaps >= 3
        /\ run[r].indices # Arange(sN)
        /\ run[r].train # <<>>
        /\ run[r].test # <<>>

\* C2 as stated: the train partition is the first round(n*f) indices and the
\* test/validation partition the remaining n - round(n*f).
C2_Original_RoundedSize ==
    \A r \in Runs :
        SplitDone(r) =>
            /\ run[r].train = SliceHead(run[r].indices, RoundOfProduct(sN, sFrac))
            /\ Len(run[r].test) = sN - RoundOfProduct(sN, sFrac)

\* C2 amended: the train partition is the first int(n*f) indices of the
\* permutation, int(n*f) being the double-precision product truncated toward
\* zero (never above n*f, and less than 2 below it), and the test/validation
\* partition is the remaining n - int(n*f) indices in order.
C2_TruncatedSize ==
    \A r \in Runs :
        SplitDone(r) =>
            LET k == run[r].n_train
            IN  /\ k = IntOfProduct(sN, sFrac)
                /\ 10 * k <= sN * Tenths(sFrac)
                /\ sN * Tenths(sFrac) < 10 * (k + 2)
                /\ Len(run[r].train) = k
                /\ Len(run[r].test) = sN - k
                /\ \A p \in 1..k : run[r].train[p] = run[r].indices[p]
                /\ \A p \in 1..(sN - k) : run[r].test[p] = run[r].indices[k + p]

C2_Witness ==
    \E r \in Runs :
        /\ SplitDone(r)
        /\ run[r].n_train # RoundOfProduct(sN, sFrac)
        /\ run[r].train # <<>>
        /\ run[r].test # <<>>

C11_ExactPartitionSizes ==
    size.pc = 4 =>
        /\ (size.n = QsarRows /\ size.f = "0.7") =>
              /\ size.n_train = 799
              /\ size.train = 799
              /\ size.test = 343
        /\ (size.n = MnistRows /\ size.f = "0.8") =>
              /\ size.n_train = 48000
              /\ size.train = 48000
              /\ size.test = 12000

C11_Witness ==
    /\ size.pc = 4
    /\ size.n = QsarRows
    /\ size.f = "0.7"
    /\ size.train + size.test = QsarRows
    /\ size.test > 0

\* ------------------------------------------------------------------------
\* Properties of a notebook run
\* ------------------------------------------------------------------------

\* the fit statements of the notebook that have completed
FitsDone == {q \in 1..Len(Prog(nb)) : Prog(nb)[q].op = "fit" /\ q < pc}

LastFitStmt == Prog(nb)[CHOOSE q \in FitsDone : \A u \in FitsDone : u <= q]

\* the statement that fits model m
FitStmtOf(m) ==
    Prog(nb)[CHOOSE q \in 1..Len(Prog(nb)) : Prog(nb)[q].op = "fit" /\ Prog(nb)[q].m = m]

TrainIndexSet == Range(SliceHead(env["indices"], env["n_train"]))

TestIndexSet == Range(SliceTail(env["indices"], env["n_train"]))

\* C4: the scaler's parameters are those of one fit on the training
\* partition: at every moment after the fit, also after each transform, they
\* are the count, sum and sum of squares of the training rows alone, no row
\* of the test partition is among the rows they were computed from, and both
\* transformed partitions are standardized with these training statistics.
C4_ScalerFitOnTrainOnly ==
    ("scaler" \in DOMAIN env) =>
        LET trainRows == Gather(files.X, SliceHead(env["indices"], env["n_train"]))
        IN  /\ scaler.n_samples_seen = env["n_train"]
            /\ scaler.sum = SumOf(trainRows)
            /\ scaler.sumsq = SumSqOf(trainRows)
            /\ scaler.seen = TrainIndexSet
            /\ scaler.seen \cap TestIndexSet = {}
            /\ Cardinality({k \in 1..Len(log) : log[k].op = "scaler_fit"}) = 1
            /\ \A name \in {"X_train", "X_test"} \cap DOMAIN env :
                  \A p \in 1..Len(env[name]) :
                      env[name][p].num =
                          files.X[env[name][p].id + 1].v * env["n_train"]
                              - SumOf(trainRows)

C4_Witness ==
    /\ nb = 1
    /\ {"X_train", "X_test"} \subseteq DOMAIN env
    /\ SumOf(env["X_test0"]) > 0
    /\ SumOf(env["X_train0"]) > 0
    /\ Len(env["X_test0"]) > 0

C5_StateInv ==
    /\ \A m \in ModelNames :
          (model[m].state = "Training") <=> (fit.phase # "idle" /\ fit.m = m)
    /\ \A k \in 1..Len(log) :
          log[k].op = "fit" =>
              /\ log[k].ok
              /\ \E j \in 1..(k - 1) :
                    log[j].op = "compile" /\ log[j].m = log[k].m /\ log[j].ok

C5_Step ==
    \A m \in ModelNames :
        model'[m].state # model[m].state =>
            <<model[m].state, model'[m].state>> \in
                {<<"Undefined", "Uninitialized">>, <<"Uninitialized", "Compiled">>,
                 <<"Compiled", "Training">>, <<"Training", "Compiled">>}

\* C5: a model's state changes only Undefined -> Uninitialized (definition),
\* Uninitialized -> Compiled (compile), Compiled -> Training (fit entered) and
\* Training -> Compiled (fit returned); a model is in Training exactly while
\* its fit is in progress; and every fit call of a notebook run comes after a
\* successful compile call of the same model.
C5_TrainerStateMachine == [](C5_StateInv) /\ [][C5_Step]_vars

C5_Witness ==
    /\ nb = 1
    /\ model["ANN1"].state = "Compiled"
    /\ model["ANN1"].fits = 1
    /\ model["ANN2"].state = "Training"

InEpochOrder(h) == \A k \in 1..Len(h) : h[k].epoch = k - 1

FitStepsLeft == 2 * (fit.epochs - fit.epoch) - (IF fit.phase = "val" THEN 1 ELSE 0)

C6_FitInv ==
    /\ fit.phase # "idle" =>
          /\ fit.epochs = Cur.arg.epochs
          /\ Len(fit.history) = fit.epoch
          /\ InEpochOrder(fit.history)
          /\ fit.epoch <= fit.epochs
          /\ (fit.phase = "end") <=> (fit.epoch = fit.epochs)
          /\ ENABLED (TrainPass \/ ValPass \/ FitEnd)
    /\ ("history" \in DOMAIN env /\ fit.phase = "idle") =>
          /\ Len(env["history"]) = LastFitStmt.arg.epochs
          /\ Len(env["history"]) = (IF nb = 1 THEN 200 ELSE 10)
          /\ InEpochOrder(env["history"])

C6_Step ==
    /\ (fit.phase # "idle" /\ fit'.phase # "idle") =>
          /\ FitStepsLeft' < FitStepsLeft
          /\ \/ fit'.history = fit.history
             \/ /\ Len(fit'.history) = Len(fit.history) + 1
                /\ SubSeq(fit'.history, 1, Len(fit.history)) = fit.history
    /\ (fit.phase = "end" /\ fit'.phase = "idle") => env'["history"] = fit.history

\* C6: a fit call with epoch count E runs exactly E epochs whatever the
\* losses are: inside fit the history holds one entry per finished epoch, in
\* epoch order, the loop is left exactly when E epochs are done, every step
\* of fit brings its end nearer, and the history returned holds E entries
\* (200 in notebook 1, 10 in notebook 2); entries are only ever appended.
C6_FixedEpochs == [](C6_FitInv) /\ [][C6_Step]_vars

C6_Witness ==
    /\ nb = 1
    /\ "history" \in DOMAIN env
    /\ Len(env["history"]) = 200
    /\ lastPass.loss = "nan"
    /\ lastPass.kind = "val"

ResultNames == {"ANN1_mse", "ANN2_mse", "val_loss", "test_loss"}

C8_ResultsInv ==
    /\ \A name \in ResultNames \cap DOMAIN env :
          LET r == env[name] IN
          /\ model[r.m].fits = 1
          /\ r.w = model[r.m].w
          /\ r.w = FitStmtOf(r.m).arg.epochs
    /\ ("LR_pred" \in DOMAIN env) =>
          \A p \in 1..Len(env["LR_pred"]) :
              env["LR_pred"][p].v.w = model["LR_model"].w

C8_Step == \A m \in ModelNames : model[m].fits >= 1 => model'[m] = model[m]

\* C8: once a model's fit has returned no later operation changes the model,
\* evaluate and predict included, and every result evaluate or predict
\* returns was computed at the parameters the fit produced.
C8_EvaluateLeavesModel == [](C8_ResultsInv) /\ [][C8_Step]_vars

C8_Witness ==
    /\ nb = 1
    /\ Finished
    /\ {"ANN1_mse", "ANN2_mse", "LR_pred"} \subseteq DOMAIN env
    /\ env["ANN1_mse"].rows # {}

InferencePasses == {"val", "evaluate", "predict"}

\* the layer's output equals its input, entry by entry
IsIdentityOn(x, out) ==
    /\ DOMAIN out = DOMAIN x
    /\ \A u \in DOMAIN x : out[u].num = x[u] * out[u].den

KerasModels == ModelNames \ {"LR_model"}

\* C13: in a run of a notebook's cells in their written order, every evaluate
\* or predict statement that is reached targets a model that earlier cells
\* have defined, compiled (Keras models) and trained with fit, and every
\* evaluate or predict call made so far went through; this includes the final
\* evaluation of notebook 2 on ANN3.
C13_EvaluateTargetsFittedModel ==
    /\ (~Finished /\ fit.phase = "idle" /\ Cur.op \in {"evaluate", "predict"}) =>
          /\ model[Cur.m].state # "Undefined"
          /\ Cur.m \in KerasModels => model[Cur.m].state = "Compiled"
          /\ model[Cur.m].fits >= 1
    /\ \A k \in 1..Len(log) : log[k].op \in {"evaluate", "predict"} => log[k].ok

\* the original rows that make up the test partition: the tail of the
\* shuffled indices in notebook 1, the separate test pool in notebook 2
TestIds == IF nb = 1 THEN TestIndexSet ELSE Ids(files.test_images)

TestNames == {"X_test", "y_test"}

FitsLeft == {q \in pc..Len(Prog(nb)) : Prog(nb)[q].op = "fit"}

\* C14 as stated: no pass of a fit call, training or validation, reads a row
\* of the test partition, no fit call is given the test features or labels,
\* and an evaluate call reads the test partition only when all training is
\* over.
C14_Original_TestHeldOut ==
    /\ lastPass.kind \in {"train", "val"} => lastPass.rows \cap TestIds = {}
    /\ \A k \in 1..Len(log) : log[k].op = "fit" => log[k].reads \cap TestNames = {}
    /\ (lastPass.kind = "evaluate" /\ lastPass.rows \cap TestIds # {}) => FitsLeft = {}

\* C14 amended: in neither notebook does a training pass read a row of the
\* test partition. In notebook 2 no fit call and no validation pass reads the
\* test partition, and the calls that are given it belong to the final
\* evaluation cell, reached when no fit is left. In notebook 1, which has no
\* validation partition, every validation pass of both fits and every
\* evaluate reads exactly the test partition, the first evaluate on it
\* preceding the fit of ANN2.
C14_TestHeldOutFromTraining ==
    /\ lastPass.kind = "train" => lastPass.rows \cap TestIds = {}
    /\ nb = 2 =>
          /\ lastPass.kind = "val" => lastPass.rows \cap TestIds = {}
          /\ lastPass.kind = "evaluate" => lastPass.rows \cap TestIds = {}
          /\ \A k \in 1..Len(log) :
                log[k].reads \cap TestNames # {} =>
                    /\ log[k].op \in {"evaluate", "predict"}
                    /\ log[k].line >= 269
                    /\ FitsLeft = {}
    /\ nb = 1 =>
          /\ (lastPass.kind \in {"val", "evaluate"}) => lastPass.rows = TestIds
          /\ \A k \in 1..Len(log) :
                log[k].op \in {"fit", "evaluate"} =>
                    /\ TestNames \subseteq log[k].reads
                    /\ log[k].op = "fit" => {"X_train", "y_train"} \subseteq log[k].reads

C14_Witness ==
    /\ nb = 1
    /\ fit.m = "ANN2"
    /\ lastPass.kind = "val"
    /\ lastPass.rows # {}
    /\ lastPass.rows = TestIds
    /\ "ANN1_mse" \in DOMAIN env
    /\ env["ANN1_mse"].rows = TestIds

\* the encoded label arrays of notebook 2 with the class ids they encode
Encodings ==
    {<<"y_train", "l_train">>, <<"y_valid", "l_valid">>, <<"y_test", "test_labels">>}

EncodingsBound == {e \in Encodings : e[1] \in DOMAIN env}

\* v is the one-hot vector of class id c: entries 0 or 1, a single 1, at c
IsOneHotOf(v, c) ==
    /\ c + 1 \in DOMAIN v
    /\ \A q \in DOMAIN v : v[q] = (IF q = c + 1 THEN 1 ELSE 0)

\* argmax returns c on v and on every 0/1 vector of v's width whose first 1
\* is at c (the first of several maxima is taken)
ArgMaxIsFirstMax(v, c) ==
    /\ ArgMax(v) = c
    /\ \A u \in [DOMAIN v -> {0, 1}] :
          (u[c + 1] = 1 /\ \A q \in 1..c : u[q] = 0) => ArgMax(u) = c

\* C15 as stated: the encoded labels of every partition have the same fixed
\* width, the number of classes (10 in the notebook, NumClasses here),
\* whatever class ids the partition holds; each vector has a single 1 at its
\* class id; argmax of the vector returns the class id, the lowest index
\* winning ties.
C15_Original_FixedWidth ==
    nb = 2 =>
        \A e \in EncodingsBound :
            /\ Len(env[e[1]]) = Len(env[e[2]])
            /\ \A p \in 1..Len(env[e[1]]) :
                  LET v == env[e[1]][p].v
                      c == env[e[2]][p].v
                  IN  /\ Len(v) = NumClasses
                      /\ IsOneHotOf(v, c)
                      /\ ArgMaxIsFirstMax(v, c)

\* C15 amended: the encoded labels of a partition have the width of the
\* largest class id that occurs in that partition, plus one: the number of
\* classes exactly when the highest class occurs in the partition; each
\* vector has a single 1 at its class id; argmax of the vector returns the
\* class id, the lowest index winning ties.
C15_WidthOfLargestClass ==
    nb = 2 =>
        \A e \in EncodingsBound :
            LET ids == {env[e[2]][p].v : p \in 1..Len(env[e[2]])} IN
            /\ Len(env[e[1]]) = Len(env[e[2]])
            /\ \A p \in 1..Len(env[e[1]]) :
                  LET v == env[e[1]][p].v
                      c == env[e[2]][p].v
                  IN  /\ env[e[1]][p].id = env[e[2]][p].id
                      /\ \A i \in ids : i < Len(v)
                      /\ Len(v) - 1 \in ids
                      /\ (Len(v) = NumClasses) <=> (MaxClass \in ids)
                      /\ IsOneHotOf(v, c)
                      /\ ArgMaxIsFirstMax(v, c)

C15_Witness ==
    /\ nb = 2
    /\ EncodingsBound = Encodings
    /\ Len(env["y_train"]) >= 2
    /\ Len(env["y_train"][1].v) = NumClasses
    /\ Len(env["y_valid"][1].v) < NumClasses
    /\ \E p \in 1..Len(env["y_train"]) : env["l_train"][p].v = 0

\* the <<features, labels>> names a statement passes to an estimator
DataPairs(st) ==
    IF st.op = "fit" THEN {<<st.arg.x, st.arg.y>>, <<st.arg.vx, st.arg.vy>>}
    ELSE IF st.op \in {"lr_fit", "evaluate"} THEN {<<st.arg.x, st.arg.y>>}
    ELSE {}

AllDataPairs == UNION {DataPairs(Prog(nb)[q]) : q \in 1..Len(Prog(nb))}

\* the feature and the label of the loaded row with index id (the rows of
\* the MNIST test pool carry the ids -1, -2, ...)
OrigFeature(id) ==
    IF nb = 1 THEN files.X[id + 1].v
    ELSE IF id >= 0 THEN files.train_images[id + 1].v
    ELSE files.test_images[0 - id].v

OrigLabel(id) ==
    IF nb = 1 THEN files.y[id + 1].v
    ELSE IF id >= 0 THEN files.train_labels[id + 1].v
    ELSE files.test_labels[0 - id].v

\* the loaded value a preprocessed feature row stands for: a standardized
\* row holds num = v * n_samples_seen - sum
FeatureValue(row) ==
    IF "v" \in DOMAIN row THEN row.v
    ELSE (row.num + scaler.sum) \div scaler.n_samples_seen

\* the loaded value a label row stands for (a one-hot row its class id)
LabelValue(row) == IF nb = 1 THEN row.v ELSE ArgMax(row.v)

AlignedPair(xs, ys) ==
    /\ Len(xs) = Len(ys)
    /\ \A p \in 1..Len(xs) :
          /\ xs[p].id = ys[p].id
          /\ FeatureValue(xs[p]) = OrigFeature(xs[p].id)
          /\ LabelValue(ys[p]) = OrigLabel(xs[p].id)

\* C16: in every <<features, labels>> pair passed to fit (training data and
\* validation_data) or to evaluate, the feature row and the label at each
\* position come from the same loaded row: they carry the same original row
\* index, the feature row is that row's feature and the label that row's
\* label; the same holds of the sliced arrays before standardization.
C16_FeaturesLabelsAligned ==
    /\ \A pr \in AllDataPairs :
          ({pr[1], pr[2]} \subseteq DOMAIN env) => AlignedPair(env[pr[1]], env[pr[2]])
    /\ (nb = 1 /\ {"X_train0", "X_test0", "y_train", "y_test"} \subseteq DOMAIN env) =>
          /\ AlignedPair(env["X_train0"], env["y_train"])
          /\ AlignedPair(env["X_test0"], env["y_test"])
    /\ (nb = 2 /\ {"X_train", "X_valid", "l_train", "l_valid"} \subseteq DOMAIN env) =>
          /\ \A p \in 1..Len(env["X_train"]) :
                env["X_train"][p].id = env["l_train"][p].id
          /\ \A p \in 1..Len(env["X_valid"]) :
                env["X_valid"][p].id = env["l_valid"][p].id

C16_Witness ==
    /\ fit.phase = "val"
    /\ env["indices"] # Arange(Len(env["indices"]))
    /\ Len(env[Cur.arg.x]) >= 2
    /\ Len(env[Cur.arg.vx]) >= 1
    /\ \E p, q \in 1..Len(env[Cur.arg.x]) :
          /\ FeatureValue(env[Cur.arg.x][p]) # FeatureValue(env[Cur.arg.x][q])
          /\ LabelValue(env[Cur.arg.y][p]) # LabelValue(env[Cur.arg.y][q])

\* ------------------------------------------------------------------------
\* Properties of the confusion matrix
\* ------------------------------------------------------------------------

RECURSIVE SumTo(_, _)
SumTo(f, n) == IF n = 0 THEN 0 ELSE f[n] + SumTo(f, n - 1)

Trace(mat) == SumTo([a \in 1..Len(mat) |-> mat[a][a]], Len(mat))

\* rows with true class i and predicted class j
PairCount(i, j) ==
    Cardinality({r \in 1..Len(tLabels) : tLabels[r] = i /\ cm.y_pred[r] = j})

TrueCount(i) == Cardinality({r \in 1..Len(tLabels) : tLabels[r] = i})

ClassesSeen == Range(tLabels) \cup Range(cm.y_pred)

\* C9 as stated: for any true and predicted class ids over k classes the
\* matrix is k x k, entry [i][j] is the number of rows with true class i and
\* predicted class j, row i sums to the occurrences of true class i, and the
\* trace over the row count is the accuracy.
C9_Original_EntryIsClassPair ==
    cm.pc = 5 =>
        /\ Len(cm.cnf_matrix) = NumClasses
        /\ \A i, j \in 0..MaxClass : cm.cnf_matrix[i + 1][j + 1] = PairCount(i, j)
        /\ \A i \in 0..MaxClass :
              SumTo(cm.cnf_matrix[i + 1], NumClasses) = TrueCount(i)
        /\ Trace(cm.cnf_matrix) * cm.acc[2] = cm.acc[1] * Len(tLabels)

\* C9 amended: the matrix has one row and column per class id that occurs
\* among the true or the predicted labels, in increasing order; entry [a][b]
\* is the number of rows whose true class is the a-th such id and predicted
\* class the b-th; row a sums to the occurrences of that true class; the
\* trace over the row count is the accuracy; and when every class id
\* 0..k-1 occurs, entry [i][j] counts true class i, predicted class j.
C9_EntryIsSeenClassPair ==
    cm.pc = 5 =>
        LET mat == cm.cnf_matrix
            L   == Sorted(ClassesSeen)
        IN  /\ Len(mat) = Cardinality(ClassesSeen)
            /\ \A a, b \in 1..Len(L) : mat[a][b] = PairCount(L[a], L[b])
            /\ \A a \in 1..Len(L) : SumTo(mat[a], Len(L)) = TrueCount(L[a])
            /\ Trace(mat) = cm.acc[1]
            /\ cm.acc[2] = Len(tLabels)
            /\ Trace(mat) =
                  Cardinality({r \in 1..Len(tLabels) : cm.y_pred[r] = tLabels[r]})
            /\ ClassesSeen = 0..MaxClass =>
                  \A i, j \in 0..MaxClass : mat[i + 1][j + 1] = PairCount(i, j)

C9_Witness ==
    /\ cm.pc = 5
    /\ ClassesSeen = 0..MaxClass
    /\ Len(tLabels) >= 3
    /\ Trace(cm.cnf_matrix) >= 1
    /\ Trace(cm.cnf_matrix) < Len(tLabels)
    /\ \E a \in 1..Len(cm.cnf_matrix) :
          SumTo(cm.cnf_matrix[a], Len(cm.cnf_matrix)) >= 2

====
